---- MODULE Spec2Model ----
(***************************************************************************)
(* Lithium-water reaction kinetic estimator (src/source_code.py).          *)
(*                                                                         *)
(* main() is modelled as a sequential process: the answers typed at the    *)
(* prompts and the content of Input_Data.xlsx form the variable `input`,   *)
(* fixed when the program starts; pc is main's position.                   *)
(*                                                                         *)
(* Numbers are fixed point integers:                                       *)
(*   lengths                      metres                                   *)
(*   volume, area, surface_area   1e-3 m^3, 1e-3 m^2 (math.pi = 3.142)     *)
(*   reaction coefficient         1e-9 kg/m^2.s                            *)
(*   exp and log values           1e-3                                     *)
(*   masses and flow rates        1e-7 kg, 1e-7 kg/s                       *)
(*   moles                        1e-7 mol                                 *)
(*   heat                         1e-7 kJ                                  *)
(* Every product is scaled back by floor division, where the program       *)
(* rounds to the nearest double.                                           *)
(***************************************************************************)
EXTENDS Integers, Sequences, FiniteSets, TLC

VARIABLES input, pc, error, stdout, plots,
          domain_info, df, coeff_choice, frequency_for_coeff,
          activation_energy_for_coeff,
          H2O_tot, Li_tot, LiOH_tot, H2_tot,
          time_steps, seconds,
          time_series, H2O_series, Li_series, LiOH_series, H2_series,
          heat_series, water_vapour_flow_series, lithium_inventory_series,
          lithium_inventory, water_vapour_flow

vars == <<input, pc, error, stdout, plots,
          domain_info, df, coeff_choice, frequency_for_coeff,
          activation_energy_for_coeff,
          H2O_tot, Li_tot, LiOH_tot, H2_tot,
          time_steps, seconds,
          time_series, H2O_series, Li_series, LiOH_series, H2_series,
          heat_series, water_vapour_flow_series, lithium_inventory_series,
          lithium_inventory, water_vapour_flow>>

simVars == <<H2O_tot, Li_tot, LiOH_tot, H2_tot, time_steps, seconds,
             time_series, H2O_series, Li_series, LiOH_series, H2_series,
             heat_series, water_vapour_flow_series, lithium_inventory_series,
             lithium_inventory, water_vapour_flow>>

(***************************************************************************)
(* Bounds of the model.                                                    *)
(***************************************************************************)
\* rows of the two sheets of Input_Data.xlsx
MaxRows == 2
\* largest value of a 'Time (s)' cell of the sheets
MaxTime == 2
\* largest total transient time typed in steady mode
MaxDuration == 2

(***************************************************************************)
(* Units.                                                                  *)
(***************************************************************************)
\* one kilogram (and one kg/s over the one second step) in mass units
KG == 10000000
\* one unit of the 1e-3 scale
Milli == 1000

None == "None"

(***************************************************************************)
(* math.sqrt, math.exp, math.log and math.pi in fixed point.               *)
(***************************************************************************)
PiMilli == 3142

RECURSIVE SqrtSearch(_, _, _)
SqrtSearch(x, lo, hi) ==
    IF lo >= hi THEN lo
    ELSE LET mid == (lo + hi + 1) \div 2
         IN  IF mid * mid <= x THEN SqrtSearch(x, mid, hi)
                               ELSE SqrtSearch(x, lo, mid - 1)

\* math.sqrt of a value in 1e-3 units, result in 1e-3 units; x >= 0
SqrtMilli(x) == SqrtSearch(x * Milli, 0, 40000)

\* exp(-7) < 0.0005: below this argument the 1e-3 scale holds 0
ExpFloor == -7000
\* math.exp raises OverflowError above 709.78
ExpOverflow == 709782

\* e^(x/1000) * 1000 for 0 <= x < 1000, by the Taylor series
ExpFrac(x) ==
    LET t1 == x
        t2 == (t1 * x) \div 2000
        t3 == (t2 * x) \div 3000
        t4 == (t3 * x) \div 4000
        t5 == (t4 * x) \div 5000
    IN  Milli + t1 + t2 + t3 + t4 + t5

RECURSIVE ExpPos(_)
ExpPos(x) == IF x >= Milli THEN (2718 * ExpPos(x - Milli)) \div Milli
                           ELSE ExpFrac(x)

\* math.exp of a value in 1e-3 units, result in 1e-3 units
ExpMilli(x) ==
    IF x >= 0 THEN ExpPos(x)
    ELSE IF x < ExpFloor THEN 0
    ELSE (Milli * Milli) \div ExpPos(-x)

\* math.log of a value in 1e-2 units (y > 0), result in 1e-3 units:
\* ln y = 2 atanh((y-1)/(y+1))
LogMilli(y) ==
    LET z  == ((y - 100) * Milli) \div (y + 100)
        z2 == (z * z) \div Milli
        z3 == (z * z2) \div Milli
        z5 == (z3 * z2) \div Milli
        z7 == (z5 * z2) \div Milli
    IN  2 * (z + (z3 \div 3) + (z5 \div 5) + (z7 \div 7))

(***************************************************************************)
(* SECTION 1: chemical_reaction_domain                                     *)
(***************************************************************************)
\* chemical_reaction_domain taking the whole area of the cylinder, walls
\* and both ends, as its reactive surface
chemical_reaction_domain_whole_area(domain_choice, dims) ==
    LET d1 == dims[1]
        d2 == dims[2]
        d3 == dims[3]
        Dict(shape, volume, area, surface_area, root) ==
            IF root < 0
            THEN [kind |-> "raise", error |-> "ValueError"]
            ELSE [kind |-> "dict", shape |-> shape, volume |-> volume,
                  area |-> area, surface_area |-> surface_area,
                  charac_length |-> SqrtMilli(root)]
    IN  CASE domain_choice = "1" ->
               LET area == ((2 * (d1 * d2)) + (2 * (d1 * d3)) + (2 * (d3 * d2))) * Milli
               IN  Dict("cubic", d1 * d2 * d3 * Milli, area, d1 * d2 * Milli, area)
          [] domain_choice = "2" ->
               LET surface_area == 2 * PiMilli * d1 * (d1 + d2)
               IN  Dict("cylindrical", PiMilli * (d1 * d1) * d2,
                        2 * PiMilli * d1 * (d1 + d2), surface_area, surface_area)
          [] domain_choice = "3" ->
               [kind |-> "dict", shape |-> "hemispherical",
                volume |-> (2 * PiMilli * (d1 * d1 * d1)) \div 3,
                area |-> 3 * PiMilli * (d1 * d1),
                surface_area |-> PiMilli * (d1 * d1),
                charac_length |-> d1 * 2 * Milli]
          [] domain_choice = "4" ->
               LET surface_area == PiMilli * (d1 * d1)
               IN  Dict("Hemisphere + Cylinder",
                        ((2 * PiMilli * (d1 * d1 * d1)) \div 3) + (PiMilli * (d1 * d1) * d2),
                        (3 * PiMilli * (d1 * d1)) + (2 * PiMilli * (d1 * d2)),
                        surface_area, surface_area)
          [] OTHER -> [kind |-> "none"]

\* the dictionary chemical_reaction_domain returns for a domain choice and
\* the three numbers typed after it, None for an invalid choice, or the
\* ValueError math.sqrt raises on a negative area
chemical_reaction_domain(domain_choice, dims) ==
    LET d1 == dims[1]
        d2 == dims[2]
        d3 == dims[3]
        \* the returned dictionary; root is the argument of math.sqrt
        Dict(shape, volume, area, surface_area, root) ==
            IF root < 0
            THEN [kind |-> "raise", error |-> "ValueError"]
            ELSE [kind |-> "dict", shape |-> shape, volume |-> volume,
                  area |-> area, surface_area |-> surface_area,
                  charac_length |-> SqrtMilli(root)]
    IN  CASE domain_choice = "1" ->
               LET area == ((2 * (d1 * d2)) + (2 * (d1 * d3)) + (2 * (d3 * d2))) * Milli
               IN  Dict("cubic", d1 * d2 * d3 * Milli, area, d1 * d2 * Milli, area)
          [] domain_choice = "2" ->
               LET surface_area == PiMilli * (d1 * d1)
               IN  Dict("cylindrical", PiMilli * (d1 * d1) * d2,
                        2 * PiMilli * d1 * (d1 + d2), surface_area, surface_area)
          [] domain_choice = "3" ->
               [kind |-> "dict", shape |-> "hemispherical",
                volume |-> (2 * PiMilli * (d1 * d1 * d1)) \div 3,
                area |-> 3 * PiMilli * (d1 * d1),
                surface_area |-> PiMilli * (d1 * d1),
                charac_length |-> d1 * 2 * Milli]
          [] domain_choice = "4" ->
               LET surface_area == PiMilli * (d1 * d1)
               IN  Dict("Hemisphere + Cylinder",
                        ((2 * PiMilli * (d1 * d1 * d1)) \div 3) + (PiMilli * (d1 * d1) * d2),
                        (3 * PiMilli * (d1 * d1)) + (2 * PiMilli * (d1 * d2)),
                        surface_area, surface_area)
          [] OTHER -> [kind |-> "none"]

(***************************************************************************)
(* SECTION 2: input_data                                                   *)
(***************************************************************************)
TimeCol == "Time (s)"
TempCol == "Downstream_Temperature (C)"
LeakCol == "Leak_rate (kg/s)"
DrainCol == "Drainage_rate (kg/s)"
GasCol == "Gas_flow_rate (kg/s)"

\* the columns of the steady state table, in the order of data_handler
SteadyColumns ==
    <<TimeCol, LeakCol, "Break_size (m2)", "Upstream_Pressure (bar)",
      "Upstream_Temperature (C)", DrainCol, GasCol,
      "Downstream_Pressure (bar)", TempCol>>

\* a table row: the cells the simulation loop reads
Row(time, temp, leak, drain, gas) ==
    [time |-> time, temp |-> temp, leak |-> leak, drain |-> drain, gas |-> gas]

\* list(range(0, transient_time + 1, 1)) with the constant columns
SteadyRows(s) ==
    [i \in 1..(IF s.transient_time + 1 > 0 THEN s.transient_time + 1 ELSE 0) |->
        Row(i - 1, s.downstream_temperature, s.leak_rate, s.drainage_rate,
            s.gas_flow_rate)]

\* how many columns of the table carry the label
Count(columns, label) == Len(SelectSeq(columns, LAMBDA c : c = label))

\* DataFrame.drop(labels, axis=1): every column carrying one of the labels
Drop(columns, labels) ==
    SelectSeq(columns, LAMBDA c : \A i \in 1..Len(labels) : labels[i] # c)

\* time_columns[2:]
From2(s) == IF Len(s) > 2 THEN SubSeq(s, 3, Len(s)) ELSE <<>>

\* pd.concat([df1, df2], axis=1) and the removal of repeated time columns
MergedColumns(columns1, columns2) ==
    LET columns == columns1 \o columns2
        time_columns == SelectSeq(columns, LAMBDA c : c = TimeCol)
    IN  IF Len(time_columns) > 1 THEN Drop(columns, From2(time_columns))
                                 ELSE columns

\* what input_data returns: the table, or None for an invalid choice
input_data(in) ==
    CASE in.transient_choice = "1" ->
           [kind |-> "df", columns |-> SteadyColumns, rows |-> SteadyRows(in.steady)]
      [] in.transient_choice = "2" ->
           [kind |-> "df",
            columns |-> MergedColumns(in.excel.columns1, in.excel.columns2),
            rows |-> in.excel.rows]
      [] OTHER -> [kind |-> "none"]

(***************************************************************************)
(* SECTION 4: reaction_coeff_calculation                                   *)
(***************************************************************************)
\* gas_constant = 8.314, in 1e-3 units
GasConstantMilli == 8314

\* -(activation_energy / (gas_constant * temp)) in 1e-3 units, temp # 0
ArrheniusExponent(activation_energy, temp) ==
    -((((activation_energy * 10000) \div GasConstantMilli) * 100) \div temp)

\* The outcomes of one call: a coefficient, None for an invalid choice, or
\* an exception.  A zero temperature divides by zero: a table cell that
\* pandas hands over as a NumPy scalar makes the quotient infinite and
\* math.exp(-inf) zero (activation energy > 0), a cell handed over as a
\* Python number raises ZeroDivisionError; both are outcomes.
reaction_coeff_calculation(choice, temp_for_coeff, frequency, activation_energy) ==
    CASE choice = "1" ->
           IF temp_for_coeff = 0
           THEN {[kind |-> "raise", error |-> "ZeroDivisionError"],
                 [kind |-> "value", value |-> 0]}
           ELSE LET x == ArrheniusExponent(activation_energy, temp_for_coeff)
                IN  IF x > ExpOverflow
                    THEN {[kind |-> "raise", error |-> "OverflowError"]}
                    ELSE {[kind |-> "value",
                           value |-> (frequency * ExpMilli(x)) \div Milli]}
      [] choice = "2" ->
           {[kind |-> "value",
             value |-> (((8173 * temp_for_coeff) - 307380) * 10) \div 36]}
      [] choice = "3" ->
           {[kind |-> "value",
             value |-> (9384 * ExpMilli((431 * temp_for_coeff) \div 10)) \div 3600]}
      [] OTHER -> {[kind |-> "none"]}

(***************************************************************************)
(* SECTION 5: main                                                         *)
(***************************************************************************)
\* kinetic model constants: alfa and beta in 1e-2 units
AlfaCenti == 100
BetaCenti == 45
\* 1 / MW_H2O = 55.508 mol/kg, in 1e-3 units
PerMW_H2O == 55508
\* MW_Li = 0.006941 kg/mol, in 1e-6 units
MW_Li == 6941
\* MW_LiOH = 0.02395 kg/mol, in 1e-5 units
MW_LiOH == 2395
\* MW_H2 = 0.002016 kg/mol, in 1e-6 units
MW_H2 == 2016
\* heat of reaction, kJ per mole of water
HeatPerMole == 222

\* RowAt reading the first row whatever the index
RowAtFirst(table, index) == table.rows[1]

\* df.loc[seconds, ...]: the row of the table the pass reads
RowAt(table, index) == table.rows[index + 1]

\* WaterMass with the time of the end of the step
WaterMassNextSecond(reac_coeff, time, reac_area) ==
    (((reac_coeff * LogMilli(AlfaCenti + (BetaCenti * (time + 1)))) \div Milli)
        * reac_area) \div 100000

\* line 229: the water consumed in one time step
WaterMass(reac_coeff, time, reac_area) ==
    (((reac_coeff * LogMilli(AlfaCenti + (BetaCenti * time))) \div Milli)
        * reac_area) \div 100000

\* line 230: kilograms of water to moles
MolesOfWater(H2O_in_kg) == (H2O_in_kg * PerMW_H2O) \div 1000

\* lines 229-237: the masses, moles and heat of one time step
StepMasses(reac_coeff, time, reac_area) ==
    LET H2O_in_kg == WaterMass(reac_coeff, time, reac_area)
        H2O_in_mole == MolesOfWater(H2O_in_kg)
        Li_in_mole == H2O_in_mole
        LiOH_in_mole == H2O_in_mole
        H2_in_mole == H2O_in_mole \div 2
    IN  [H2O_in_kg |-> H2O_in_kg,
         H2O_in_mole |-> H2O_in_mole,
         Li_in_kg |-> (Li_in_mole * MW_Li) \div 1000000,
         LiOH_in_kg |-> (LiOH_in_mole * MW_LiOH) \div 100000,
         H2_in_kg |-> (H2_in_mole * MW_H2) \div 1000000,
         energy_in_kj |-> HeatPerMole * H2O_in_mole]

\* Optional with 1 kg/s as the value of a missing column
OptionalDefaultOne(columns, label, cell) ==
    IF Count(columns, label) > 0 THEN cell ELSE KG

\* lines 252-255, 262-269: the cell of an optional column, 0 without it
Optional(columns, label, cell) == IF Count(columns, label) > 0 THEN cell ELSE 0

\* lines 257-258: the vapour balance after the step
VapourUpdate(flow, gas_flow_rate, H2O_in_kg) == (flow + (gas_flow_rate * 1)) - H2O_in_kg

\* InventoryUpdate with an empty pool as floor
InventoryUpdateClamped(inventory, lithium_inlet, lithium_outlet, Li_in_kg) ==
    LET v == ((inventory + (lithium_inlet * 1)) - (lithium_outlet * 1)) - Li_in_kg
    IN  IF v < 0 THEN 0 ELSE v

\* lines 271-273: the pool inventory after the step
InventoryUpdate(inventory, lithium_inlet, lithium_outlet, Li_in_kg) ==
    ((inventory + (lithium_inlet * 1)) - (lithium_outlet * 1)) - Li_in_kg

\* StdoutWrite into a buffer that an exception discards
StdoutWriteLost(out, line) == out

\* print(): the line reaches the user at once
StdoutWrite(out, line) == Append(out, line)

\* the exception lines 224-229 raise for a row, "" when they raise none:
\* the coefficient call itself, None * float for an invalid choice,
\* math.log of the two cell Series of a repeated time column, math.log of
\* a non positive number
StepError(outcome, time) ==
    IF outcome.kind = "raise" THEN outcome.error
    ELSE IF Count(df.columns, TimeCol) > 1 THEN "TypeError"
    ELSE IF AlfaCenti + (BetaCenti * time) <= 0 THEN "ValueError"
    ELSE IF outcome.kind = "none" THEN "TypeError"
    ELSE ""

\* main stops on an unhandled exception
Crash(exception) ==
    /\ pc' = "crashed"
    /\ error' = exception

\* lines 176-180
ChemicalReactionDomain ==
    /\ pc = "domain"
    /\ LET r == chemical_reaction_domain(input.domain_choice, input.dims)
       IN  CASE r.kind = "dict" ->
                  /\ domain_info' = r
                  /\ stdout' = StdoutWrite(stdout,
                         [line |-> "domain", shape |-> r.shape, volume |-> r.volume,
                          surface_area |-> r.surface_area])
                  /\ pc' = "input"
                  /\ error' = error
             [] r.kind = "none" ->
                  /\ stdout' = StdoutWrite(stdout, [line |-> "invalid choice"])
                  /\ pc' = "returned"
                  /\ UNCHANGED <<domain_info, error>>
             [] OTHER ->
                  /\ Crash(r.error)
                  /\ UNCHANGED <<domain_info, stdout>>
    /\ UNCHANGED <<input, plots, df, coeff_choice, frequency_for_coeff,
                   activation_energy_for_coeff>>
    /\ UNCHANGED simVars

\* lines 181-182: input_data() and the unpacking of what it returns
InputData ==
    /\ pc = "input"
    /\ LET r == input_data(input)
       IN  IF r.kind = "df"
           THEN /\ df' = r
                /\ pc' = "coeff"
                /\ UNCHANGED <<error, stdout>>
           ELSE /\ stdout' = StdoutWrite(stdout, [line |-> "invalid choice for transient"])
                /\ Crash("TypeError")
                /\ df' = df
    /\ UNCHANGED <<input, plots, domain_info, coeff_choice, frequency_for_coeff,
                   activation_energy_for_coeff>>
    /\ UNCHANGED simVars

\* lines 183-221: the kinetic model prompt and the start of the run
SelectCoeff ==
    /\ pc = "coeff"
    /\ coeff_choice' = input.coeff_choice
    /\ frequency_for_coeff' =
           IF input.coeff_choice = "1" THEN input.frequency ELSE None
    /\ activation_energy_for_coeff' =
           IF input.coeff_choice = "1" THEN input.activation_energy ELSE None
    /\ IF Count(df.columns, TimeCol) = 0
       THEN /\ Crash("KeyError")
            /\ UNCHANGED <<stdout, time_steps>>
       ELSE /\ time_steps' = Len(df.rows)
            /\ stdout' = StdoutWrite(stdout, [line |-> "results"])
            /\ pc' = "loop"
            /\ error' = error
    /\ H2O_tot' = 0 /\ Li_tot' = 0 /\ LiOH_tot' = 0 /\ H2_tot' = 0
    /\ seconds' = 0
    /\ time_series' = <<>> /\ H2O_series' = <<>> /\ Li_series' = <<>>
    /\ LiOH_series' = <<>> /\ H2_series' = <<>> /\ heat_series' = <<>>
    /\ water_vapour_flow_series' = <<>> /\ lithium_inventory_series' = <<>>
    /\ lithium_inventory' = 0
    /\ water_vapour_flow' = 0
    /\ UNCHANGED <<input, plots, domain_info, df>>

\* lines 223-274: one pass of the loop body
Step ==
    /\ pc = "loop"
    /\ seconds < time_steps
    /\ LET row == RowAt(df, seconds)
       IN  \E outcome \in reaction_coeff_calculation(coeff_choice, row.temp,
                              frequency_for_coeff, activation_energy_for_coeff) :
             LET exception == StepError(outcome, row.time)
                 m == StepMasses(outcome.value, row.time, domain_info.surface_area)
                 gas_flow_rate == Optional(df.columns, GasCol, row.gas)
                 lithium_inlet == Optional(df.columns, LeakCol, row.leak)
                 lithium_outlet == Optional(df.columns, DrainCol, row.drain)
                 flow == VapourUpdate(water_vapour_flow, gas_flow_rate, m.H2O_in_kg)
                 inventory == InventoryUpdate(lithium_inventory, lithium_inlet,
                                              lithium_outlet, m.Li_in_kg)
             IN  IF exception # ""
                 THEN /\ Crash(exception)
                      /\ stdout' = IF outcome.kind = "none"
                                   THEN StdoutWrite(stdout, [line |-> "invalid choice"])
                                   ELSE stdout
                      /\ UNCHANGED simVars
                 ELSE /\ H2O_tot' = H2O_tot + m.H2O_in_kg
                      /\ Li_tot' = Li_tot + m.Li_in_kg
                      /\ LiOH_tot' = LiOH_tot + m.LiOH_in_kg
                      /\ H2_tot' = H2_tot + m.H2_in_kg
                      /\ stdout' = StdoutWrite(stdout,
                             [line |-> "step", seconds |-> seconds,
                              reac_coeff |-> outcome.value,
                              H2O_in_kg |-> m.H2O_in_kg, Li_in_kg |-> m.Li_in_kg])
                      /\ time_series' = Append(time_series, row.time)
                      /\ H2O_series' = Append(H2O_series, m.H2O_in_kg)
                      /\ Li_series' = Append(Li_series, m.Li_in_kg)
                      /\ LiOH_series' = Append(LiOH_series, m.LiOH_in_kg)
                      /\ H2_series' = Append(H2_series, m.H2_in_kg)
                      /\ heat_series' = Append(heat_series, m.energy_in_kj)
                      /\ water_vapour_flow' = flow
                      /\ water_vapour_flow_series' = Append(water_vapour_flow_series, flow)
                      /\ lithium_inventory' = inventory
                      /\ lithium_inventory_series' = Append(lithium_inventory_series, inventory)
                      /\ seconds' = seconds + 1
                      /\ UNCHANGED <<pc, error, time_steps>>
    /\ UNCHANGED <<input, plots, domain_info, df, coeff_choice,
                   frequency_for_coeff, activation_energy_for_coeff>>

\* lines 276-282: the loop is over, the message and the five plots
Finish ==
    /\ pc = "loop"
    /\ seconds = time_steps
    /\ stdout' = StdoutWrite(stdout, [line |-> "completed", time |-> time_steps - 1])
    /\ plots' = <<[plot |-> "reactants", x |-> time_series, y |-> <<H2O_series, Li_series>>],
                  [plot |-> "products", x |-> time_series, y |-> <<H2_series, LiOH_series>>],
                  [plot |-> "heat", x |-> time_series, y |-> <<heat_series>>],
                  [plot |-> "water_vapour_flow", x |-> time_series,
                   y |-> <<water_vapour_flow_series>>],
                  [plot |-> "lithium_inventory", x |-> time_series,
                   y |-> <<lithium_inventory_series>>]>>
    /\ pc' = "done"
    /\ UNCHANGED <<input, error, domain_info, df, coeff_choice,
                   frequency_for_coeff, activation_energy_for_coeff>>
    /\ UNCHANGED simVars


(***************************************************************************)
(* The inputs: what the user types and what Input_Data.xlsx holds.         *)
(***************************************************************************)
\* dimensions typed for the domain, metres
Dims == {-1, 1, 2}
\* downstream temperatures
Temps == {-1, 0, 20, 50}
\* leak, drainage and gas flow rates: 0 and 1 kg/s
Rates == {0, KG}
\* the kinetic model prompt: choice, frequency factor (1e-5 kg/m^2.s),
\* activation energy (J/mol)
CoeffAnswers == {<<"1", 10000, 10>>, <<"1", 10000, 50000>>,
                 <<"2", 0, 0>>, <<"3", 0, 0>>, <<"4", 0, 0>>}
\* the kinetic models whose coefficient never raises on Temps \ {-1, 0}
PlainCoeffAnswers == {<<"1", 10000, 10>>, <<"2", 0, 0>>, <<"3", 0, 0>>}

DefaultSteady ==
    [downstream_temperature |-> 50, leak_rate |-> KG, drainage_rate |-> 0,
     gas_flow_rate |-> 0, transient_time |-> 1]
NoExcel == [columns1 |-> <<>>, columns2 |-> <<>>, rows |-> <<>>]

Answers(domain_choice, dims, transient_choice, steady, excel, coeff) ==
    [domain_choice |-> domain_choice, dims |-> dims,
     transient_choice |-> transient_choice, steady |-> steady, excel |-> excel,
     coeff_choice |-> coeff[1], frequency |-> coeff[2],
     activation_energy |-> coeff[3]]

\* sequences of at most n elements of S
SeqUpTo(S, n) == UNION {[1..k -> S] : k \in 0..n}

\* The families of inputs; each is a predicate on the variable input.

\* every domain choice and dimension, on a two row steady table
GeometryInputs ==
    \/ \E l \in Dims, w \in Dims, h \in Dims :
         input = Answers("1", <<l, w, h>>, "1", DefaultSteady, NoExcel, <<"2", 0, 0>>)
    \/ \E c \in {"2", "4"}, r \in Dims, h \in Dims :
         input = Answers(c, <<r, h, 1>>, "1", DefaultSteady, NoExcel, <<"2", 0, 0>>)
    \/ \E c \in {"3", "5"}, r \in Dims :
         input = Answers(c, <<r, 1, 1>>, "1", DefaultSteady, NoExcel, <<"2", 0, 0>>)

\* a unit cube and a unit cylinder
PlainDomains == {<<"1", <<1, 1, 1>>>>, <<"2", <<1, 1, 1>>>>}

\* mode prompt answered with neither 1 nor 2
ModeInputs ==
    input = Answers("1", <<1, 1, 1>>, "3", DefaultSteady, NoExcel, <<"2", 0, 0>>)

\* steady mode: every constant boundary condition, duration and model
SteadyInputs ==
    \E d \in PlainDomains, t \in Temps, l \in Rates, o \in Rates, g \in Rates,
       n \in -1..MaxDuration, c \in CoeffAnswers :
        input = Answers(d[1], d[2], "1",
                        [downstream_temperature |-> t, leak_rate |-> l,
                         drainage_rate |-> o, gas_flow_rate |-> g,
                         transient_time |-> n],
                        NoExcel, c)

\* transient mode, time and temperature free in every row, every model
KineticInputs ==
    \E d \in PlainDomains, c \in CoeffAnswers,
       rows \in SeqUpTo({Row(t, T, KG, 0, 0) : t \in 0..MaxTime, T \in Temps}, MaxRows) :
        input = Answers(d[1], d[2], "2", DefaultSteady,
                        [columns1 |-> <<TimeCol, LeakCol>>,
                         columns2 |-> <<TempCol, DrainCol, GasCol>>, rows |-> rows], c)

\* transient mode, Arrhenius model of a hot pool (frequency factor 0.01
\* kg/m^2.s, activation energy 50 kJ/mol) with readings of 1000, 0 and -1
HotTemps == {-1, 0, 1000}
ArrheniusInputs ==
    \E d \in PlainDomains,
       rows \in SeqUpTo({Row(t, T, KG, 0, 0) : t \in 0..MaxTime, T \in HotTemps}, MaxRows) :
        input = Answers(d[1], d[2], "2", DefaultSteady,
                        [columns1 |-> <<TimeCol, LeakCol>>,
                         columns2 |-> <<TempCol, DrainCol, GasCol>>, rows |-> rows],
                        <<"1", 10000000, 50000>>)

\* the rows with the time column 0, 1, 2, ...
Contiguous(rows) == [i \in 1..Len(rows) |-> [rows[i] EXCEPT !.time = i - 1]]

\* the cells of a column the sheets may lack
Cells(columns, label) == IF Count(columns, label) > 0 THEN Rates ELSE {0}

\* transient mode, contiguous time, the optional columns present or not
\* and their cells free in every row
FlowInputs ==
    \E c1 \in {<<TimeCol>>, <<TimeCol, LeakCol>>},
       c2 \in {<<TempCol>>, <<TempCol, DrainCol>>, <<TempCol, GasCol>>,
               <<TempCol, DrainCol, GasCol>>},
       c \in PlainCoeffAnswers :
      \E r \in SeqUpTo({Row(0, T, l, o, g) :
                          T \in {20, 50},
                          l \in Cells(c1, LeakCol),
                          o \in Cells(c2, DrainCol),
                          g \in Cells(c2, GasCol)}, MaxRows) :
        input = Answers("1", <<1, 1, 1>>, "2", DefaultSteady,
                        [columns1 |-> c1, columns2 |-> c2, rows |-> Contiguous(r)], c)

\* transient mode, the time column in the first sheet, the second, or both
TimeColumnInputs ==
    \E c1 \in {<<LeakCol>>, <<TimeCol, LeakCol>>},
       c2 \in {<<TempCol, DrainCol, GasCol>>, <<TimeCol, TempCol, DrainCol, GasCol>>},
       r \in SeqUpTo({Row(0, 50, KG, 0, 0)}, MaxRows),
       c \in CoeffAnswers :
        input = Answers("1", <<1, 1, 1>>, "2", DefaultSteady,
                        [columns1 |-> c1, columns2 |-> c2, rows |-> Contiguous(r)], c)

Inputs == \/ GeometryInputs
          \/ ModeInputs
          \/ SteadyInputs
          \/ KineticInputs
          \/ ArrheniusInputs
          \/ FlowInputs
          \/ TimeColumnInputs

NoDomain == [kind |-> "none"]
NoTable == [kind |-> "none", columns |-> <<>>, rows |-> <<>>]

Init ==
    /\ Inputs
    /\ pc = "domain"
    /\ error = ""
    /\ stdout = <<>>
    /\ plots = <<>>
    /\ domain_info = NoDomain
    /\ df = NoTable
    /\ coeff_choice = None
    /\ frequency_for_coeff = None
    /\ activation_energy_for_coeff = None
    /\ H2O_tot = 0 /\ Li_tot = 0 /\ LiOH_tot = 0 /\ H2_tot = 0
    /\ time_steps = 0
    /\ seconds = 0
    /\ time_series = <<>> /\ H2O_series = <<>> /\ Li_series = <<>>
    /\ LiOH_series = <<>> /\ H2_series = <<>> /\ heat_series = <<>>
    /\ water_vapour_flow_series = <<>> /\ lithium_inventory_series = <<>>
    /\ lithium_inventory = 0
    /\ water_vapour_flow = 0

Next == ChemicalReactionDomain \/ InputData \/ SelectCoeff \/ Step \/ Finish

Spec == Init /\ [][Next]_vars

(***************************************************************************)
(* Properties.                                                             *)
(***************************************************************************)
Running == pc \in {"loop", "done"}
ValidModel == coeff_choice \in {"1", "2", "3"}
Has(label) == Count(df.columns, label) > 0
StepLines == SelectSeq(stdout, LAMBDA l : l.line = "step")
CompletedLines == SelectSeq(stdout, LAMBDA l : l.line = "completed")
AllSeries == <<time_series, H2O_series, Li_series, LiOH_series, H2_series,
               heat_series, water_vapour_flow_series, lithium_inventory_series>>
\* the cell of row i (from 1) of an optional column, 0 for a missing column
LeakCell(i) == IF Has(LeakCol) THEN df.rows[i].leak ELSE 0
DrainCell(i) == IF Has(DrainCol) THEN df.rows[i].drain ELSE 0
GasCell(i) == IF Has(GasCol) THEN df.rows[i].gas ELSE 0
\* entry i of a running series, 0 before the first
Before(series, i) == IF i = 1 THEN 0 ELSE series[i - 1]

\* C1: during and after a run with a valid kinetic model every series holds
\* one entry per row already processed, in index order, entry i built from
\* row i (its time is row i's time, its printed line carries index i and the
\* water mass of entry i); a completed run has processed all N rows and
\* hands exactly these N-entry series to the plots.
C1_SeriesFollowRows ==
    (Running /\ ValidModel) =>
        /\ \A k \in 1..Len(AllSeries) : Len(AllSeries[k]) = seconds
        /\ \A i \in 1..seconds : time_series[i] = df.rows[i].time
        /\ Len(StepLines) = seconds
        /\ \A i \in 1..seconds : /\ StepLines[i].seconds = i - 1
                                 /\ StepLines[i].H2O_in_kg = H2O_series[i]
        /\ pc = "done" =>
             /\ seconds = Len(df.rows)
             /\ Len(plots) = 5
             /\ \A p \in 1..Len(plots) :
                  /\ plots[p].x = time_series
                  /\ \A y \in 1..Len(plots[p].y) : Len(plots[p].y[y]) = Len(df.rows)
             /\ plots[1].y = <<H2O_series, Li_series>>
             /\ plots[5].y = <<lithium_inventory_series>>

\* a completed run over a table whose times go backwards
C1_Witness ==
    /\ pc = "done" /\ ValidModel
    /\ Len(df.rows) >= 2
    /\ df.rows[1].time > df.rows[2].time
    /\ H2O_series[1] # 0
    /\ plots[1].x = <<df.rows[1].time>> \o Tail(time_series)

\* C2 (as claimed): with a valid kinetic model and a positive reactive
\* area no step lowers a cumulative total.
C2_TotalsNeverDecrease ==
    [][(ValidModel /\ domain_info.surface_area > 0) =>
          /\ H2O_tot' >= H2O_tot
          /\ Li_tot' >= Li_tot
          /\ LiOH_tot' >= LiOH_tot
          /\ H2_tot' >= H2_tot]_vars

RECURSIVE HeatSum(_)
HeatSum(i) == IF i = 0 THEN 0
              ELSE HeatSum(i - 1) + (HeatPerMole * MolesOfWater(H2O_series[i]))

\* C3 (as claimed): entry i of the heat series is the heat released since
\* the start of the run, the sum of 222 * water_mol over rows 0..i.
C3_HeatSeriesIsRunningTotal ==
    (Running /\ ValidModel) =>
        \A i \in 1..Len(heat_series) : heat_series[i] = HeatSum(i)

RECURSIVE PoolSum(_)
PoolSum(i) == IF i = 0 THEN 0
              ELSE PoolSum(i - 1)
                     + ((df.rows[i].leak - df.rows[i].drain) - Li_series[i])

\* C4: with leak and drainage columns in the table, the pool inventory is 0
\* before the first step and after step i the sum over rows 0..i of
\* leak - drainage - consumed lithium, negative sums included; one row at
\* t = 0 with leak 1 kg/s and no drainage leaves exactly 1 kg.
C4_PoolInventoryIsSum ==
    (Running /\ ValidModel /\ Has(LeakCol) /\ Has(DrainCol)) =>
        /\ lithium_inventory = PoolSum(seconds)
        /\ \A i \in 1..seconds : lithium_inventory_series[i] = PoolSum(i)
        /\ (/\ seconds >= 1
            /\ df.rows[1].time = 0
            /\ df.rows[1].leak = KG
            /\ df.rows[1].drain = 0) => lithium_inventory_series[1] = KG

\* the pool holds 1 kg after a first row at t = 0 and is overdrawn by the
\* drainage and the lithium the second step consumes
C4_Witness ==
    /\ Running /\ ValidModel /\ Has(LeakCol) /\ Has(DrainCol)
    /\ seconds >= 2
    /\ df.rows[1].time = 0
    /\ lithium_inventory_series[1] = KG
    /\ Li_series[2] > 0
    /\ lithium_inventory_series[2] < 0

\* C5: a step whose row has time 0 consumes no water and no lithium,
\* produces no hydroxide, no hydrogen and no heat, adds the row's gas flow
\* to the vapour balance and leak - drainage to the pool inventory.
C5_NothingReactsAtTimeZero ==
    (Running /\ ValidModel) =>
        \A i \in 1..seconds :
            df.rows[i].time = 0 =>
                /\ H2O_series[i] = 0
                /\ Li_series[i] = 0
                /\ LiOH_series[i] = 0
                /\ H2_series[i] = 0
                /\ heat_series[i] = 0
                /\ water_vapour_flow_series[i]
                     = Before(water_vapour_flow_series, i) + GasCell(i)
                /\ lithium_inventory_series[i]
                     = Before(lithium_inventory_series, i) + (LeakCell(i) - DrainCell(i))

\* a row with time 0 after a row that reacted, with a non zero coefficient,
\* on the cylinder
C5_Witness ==
    /\ Running /\ ValidModel
    /\ seconds >= 2
    /\ df.rows[2].time = 0
    /\ H2O_series[1] # 0
    /\ StepLines[2].reac_coeff # 0
    /\ domain_info.surface_area = PiMilli
    /\ H2O_series[2] = 0

\* C6 (as claimed): a table without rows is rejected; the run neither
\* reports completion nor hands series to the plots.
C6_EmptyTableRejected ==
    (df.kind = "df" /\ Len(df.rows) = 0 /\ ValidModel) =>
        /\ pc # "done"
        /\ CompletedLines = <<>>
        /\ plots = <<>>

\* C7 (as claimed): with a kinetic model choice other than 1, 2, 3 the run
\* executes no step, leaves every accumulator at zero, emits nothing and
\* never reports completion, whatever the table.
C7_InvalidModelAborts ==
    (pc \in {"loop", "done", "crashed"} /\ coeff_choice \notin {"1", "2", "3", None}) =>
        /\ pc # "done"
        /\ CompletedLines = <<>>
        /\ plots = <<>>
        /\ StepLines = <<>>
        /\ seconds = 0
        /\ H2O_tot = 0 /\ Li_tot = 0 /\ LiOH_tot = 0 /\ H2_tot = 0
        /\ lithium_inventory = 0 /\ water_vapour_flow = 0

\* the run stopped in the coefficient evaluation of a row after the first
RateFailure ==
    /\ pc = "crashed"
    /\ error \in {"ZeroDivisionError", "OverflowError"}
    /\ seconds > 0

\* C8 (as claimed): when the coefficient evaluation fails at a row i > 0,
\* no result of rows 0..i-1 has been output and nothing is plotted.
C8_NothingReachesUser ==
    RateFailure => (StepLines = <<>> /\ plots = <<>>)

\* C8 (amended): when the coefficient evaluation fails at a row i > 0 the
\* run stops at once, plots nothing and reports no completion, but the
\* result lines of rows 0..i-1 have been printed, one per row, in order.
C8_PrintedLinesRemain ==
    RateFailure =>
        /\ ~ENABLED Next
        /\ plots = <<>>
        /\ CompletedLines = <<>>
        /\ seconds < Len(df.rows)
        /\ Len(StepLines) = seconds
        /\ \A i \in 1..Len(StepLines) :
             /\ StepLines[i].seconds = i - 1
             /\ StepLines[i].H2O_in_kg = H2O_series[i]
             /\ StepLines[i].Li_in_kg = Li_series[i]

\* math.exp overflows at the second row after a first row that reacted
C8_Witness ==
    /\ RateFailure
    /\ error = "OverflowError"
    /\ seconds = 1
    /\ H2O_series[1] # 0
    /\ StepLines[1].H2O_in_kg = H2O_series[1]

SomeColumnMissing == ~Has(GasCol) \/ ~Has(LeakCol) \/ ~Has(DrainCol)

\* C9: a table that lacks the gas flow, leak or drainage column makes no
\* step fail with a missing key, and every step updates the vapour balance
\* and the pool inventory as a table holding 0 in that column does: the
\* balance moves by gas flow - water and the inventory by
\* leak - drainage - lithium, with 0 for the missing term.
C9_MissingColumnCountsAsZero ==
    (df.kind = "df" /\ SomeColumnMissing /\ Has(TimeCol)) =>
        /\ error # "KeyError"
        /\ (Running /\ ValidModel) =>
             \A i \in 1..seconds :
               /\ water_vapour_flow_series[i] =
                    (Before(water_vapour_flow_series, i)
                       + (IF Has(GasCol) THEN df.rows[i].gas ELSE 0)) - H2O_series[i]
               /\ lithium_inventory_series[i] =
                    ((Before(lithium_inventory_series, i)
                       + (IF Has(LeakCol) THEN df.rows[i].leak ELSE 0))
                       - (IF Has(DrainCol) THEN df.rows[i].drain ELSE 0)) - Li_series[i]

\* a completed run without leak and gas flow columns, draining 1 kg/s
C9_Witness ==
    /\ pc = "done" /\ ValidModel
    /\ ~Has(GasCol) /\ ~Has(LeakCol) /\ Has(DrainCol)
    /\ seconds >= 2
    /\ df.rows[2].drain = KG
    /\ H2O_series[2] > 0
    /\ water_vapour_flow = -(H2O_series[1] + H2O_series[2])
    /\ lithium_inventory < -KG

\* C10 (as claimed): when both sheets carry a time column the merged table
\* holds one, the first, and the other columns in their order.
C10_SingleTimeColumn ==
    (/\ df.kind = "df"
     /\ input.transient_choice = "2"
     /\ Count(input.excel.columns1, TimeCol) = 1
     /\ Count(input.excel.columns2, TimeCol) = 1) =>
        /\ Count(df.columns, TimeCol) = 1
        /\ df.columns = input.excel.columns1
                          \o SelectSeq(input.excel.columns2, LAMBDA c : c # TimeCol)

\* the domain was accepted: chemical_reaction_domain returned a dictionary
Resolved == domain_info.kind = "dict"
\* the footprint of the typed domain: l*w for the cube, pi*r^2 otherwise
Footprint ==
    IF input.domain_choice = "1"
    THEN input.dims[1] * input.dims[2] * Milli
    ELSE PiMilli * input.dims[1] * input.dims[1]

\* C11 (as claimed): for every shape and every dimension tuple the
\* resolver accepts, the reactive surface area is the footprint of the
\* shape and is not negative.
C11_FootprintNeverNegative ==
    Resolved =>
        /\ domain_info.surface_area = Footprint
        /\ domain_info.surface_area >= 0

\* C11 (amended): for every shape and every accepted dimension tuple the
\* reactive surface area is the footprint of the shape; it is not negative
\* for the cylinder, the hemisphere and the hemisphere + cylinder, and for
\* the cube it is negative exactly when length and width have opposite
\* signs, which the resolver accepts.
C11_FootprintOfTypedDomain ==
    Resolved =>
        /\ domain_info.shape =
             (CASE input.domain_choice = "1" -> "cubic"
                [] input.domain_choice = "2" -> "cylindrical"
                [] input.domain_choice = "3" -> "hemispherical"
                [] OTHER -> "Hemisphere + Cylinder")
        /\ domain_info.surface_area = Footprint
        /\ input.domain_choice # "1" => domain_info.surface_area >= 0
        /\ input.domain_choice = "1" =>
             (domain_info.surface_area < 0 <=>
                \/ (input.dims[1] < 0 /\ input.dims[2] > 0)
                \/ (input.dims[1] > 0 /\ input.dims[2] < 0))

\* a cube of length -1, width 2 and height 2 is accepted (its whole area is
\* 0) and the run goes on with a reactive surface of -2 m^2
C11_Witness ==
    /\ Resolved
    /\ pc = "done"
    /\ input.domain_choice = "1"
    /\ input.dims = <<-1, 2, 2>>
    /\ domain_info.surface_area = -2 * Milli

\* C12 (as claimed): after a mode choice that is neither 1 nor 2 main has
\* reported the cause and returned, as it does for an invalid domain choice:
\* no unhandled exception, no kinetic model asked for, no simulation step.
C12_InvalidModeReturns ==
    (Resolved /\ input.transient_choice \notin {"1", "2"} /\ pc # "input") =>
        /\ pc = "returned"
        /\ error = ""
        /\ \E i \in 1..Len(stdout) : stdout[i].line = "invalid choice for transient"
        /\ coeff_choice = None
        /\ StepLines = <<>>
        /\ seconds = 0

====
